---- MODULE Spec2Model ----
(***************************************************************************)
(* ICF MCP server: the WHO ICD-API client (token cache, authenticated      *)
(* request with re-authentication on 401, entity resolution, children)     *)
(* and the action dispatcher that renders the client's results.            *)
(*                                                                         *)
(* The program is single-threaded asynchronous TypeScript.  A handler runs *)
(* without interruption until it awaits a network call; the only network   *)
(* calls are the token exchange (fetch of TOKEN_ENDPOINT) and the resource *)
(* fetch (fetch of API_BASE_URL + endpoint).  Each action below is one     *)
(* such run: from an invocation, or from the provider's answer to the      *)
(* call a task is waiting for, up to the next network call or the result.  *)
(* Reading the body of an answer (response.text(), response.json()) is     *)
(* folded into the answer: the handler touches no state in between.        *)
(* The continuations that follow one answer (authenticate storing the      *)
(* token, ensureToken reading it back, apiRequest issuing the fetch) run   *)
(* in the same turn of the event loop; another task resumes only on the    *)
(* answer to its own network call, which is delivered in a turn of its own.*)
(***************************************************************************)
EXTENDS Integers, Sequences, FiniteSets, TLC

(* ------------------------------ bounds -------------------------------- *)
MaxCalls == 2      \* handler invocations in one behaviour
MaxTicks == 2      \* clock advances in one behaviour
Max401 == 2        \* 401 answers the provider gives in one behaviour
MaxChildren == 2   \* longest child list the provider declares
MaxN == 21         \* longest result list the provider returns to a search
MaxRequested == 12 \* largest max_results a caller supplies

(* ------------------------- program constants -------------------------- *)
SafetyMargin == 300      \* seconds taken off the provider's lifetime
MsPerSecond == 1000
TickMs == 200 * MsPerSecond   \* one clock advance (ms)
Now0 == 10 * TickMs           \* Date.now() when the behaviour starts (ms)
NoToken == 0             \* accessToken = null
DefaultMaxResults == 10  \* params.max_results || 10
BrowseLimit == 20        \* browseCategory: this.search(categoryMap[cat], 20)
SampleLimit == 10        \* handleBrowse: result.results.slice(0, 10)

Tasks == {"t1", "t2"}                      \* concurrent invocations
Solo == {"t1"}                             \* one invocation at a time
Refs == {"c1", "c2"}                       \* child resource identifiers
Lifetimes == {300, 700}                    \* expires_in the provider reports (s)
ShortLifetimes == {100, 300}               \* expires_in within the safety margin
AuthFailStatuses == {"400", "503"}         \* non-2xx answers to the exchange
ApiFailStatuses == {"404", "500"}          \* non-2xx, non-401 answers to a fetch

Actions ==
  {"lookup", "search", "browse", "children", "qualifier", "overview", "api",
   "help", "bogus"}
ClientActions == {"lookup", "search", "browse", "children", "api"}

\* The values the action's required parameter can take.  "missing" is
\* undefined, "empty" the empty string; the others are non-empty values.
ArgsOf(a) ==
  CASE a \in {"lookup", "children", "search"} -> {"missing", "empty", "ok"}
    [] a = "browse" -> {"missing", "empty", "x", "D", "constructor"}
    [] a = "api" -> {"missing", "empty", "noslash", "ok"}
    [] a = "qualifier" ->
         {"missing", "-1", "0", "1", "2", "3", "4", "5", "6", "7", "8", "9",
          "10"}
    [] OTHER -> {"missing"}

QualifierKeys == {"0", "1", "2", "3", "4", "8", "9"}

\* browseCategory's categoryMap: its own keys, and the property names an
\* object literal inherits from Object.prototype, which `in` also finds.
CategoryKeys == {"b", "s", "d", "e"}
ObjectPrototypeKeys ==
  {"constructor", "__proto__", "toString", "valueOf", "hasOwnProperty",
   "isPrototypeOf", "propertyIsEnumerable", "toLocaleString"}

(* child lists a parent entity can declare: every sequence over Refs of    *)
(* length at most MaxChildren                                              *)
ChildLists == UNION {[1..n -> Refs] : n \in 0..MaxChildren}

VARIABLES
  creds,        \* env.WHO_CLIENT_ID and env.WHO_CLIENT_SECRET are both set
  client,       \* MyMCP.#client has been constructed
  accessToken,  \* WHOICFClient.accessToken (NoToken = null)
  tokenExpiry,  \* WHOICFClient.tokenExpiry (ms)
  now,          \* Date.now() (ms)
  issued,       \* tokens the provider has issued so far; token k is the k-th
  n401,         \* 401 answers given so far
  calls,        \* invocations started so far
  task          \* per task: position, locals and the history of its invocation

vars == <<creds, client, accessToken, tokenExpiry, now, issued, n401, calls, task>>

NoResult == [isError |-> FALSE, escaped |-> FALSE, text |-> <<>>]

IdleTask ==
  [pc |-> "idle", action |-> "help", arg |-> "missing", stage |-> "none",
   tok |-> NoToken, attempts |-> 0, kids |-> <<>>, idx |-> 0, acc |-> <<>>,
   result |-> NoResult,
   \* history of the invocation, read by the properties only
   reqExch |-> 0, prevTok |-> NoToken, mine |-> NoToken, stale |-> FALSE,
   raised |-> <<>>, okKids |-> <<>>, noStem |-> FALSE]

(* ------------------------ results and messages ------------------------ *)
Ok(text) == [isError |-> FALSE, escaped |-> FALSE, text |-> text]
Err(text) == [isError |-> TRUE, escaped |-> FALSE, text |-> text]
Escaped(msg) == [isError |-> FALSE, escaped |-> TRUE, text |-> msg]

AuthFailedMsg(status) == <<"Authentication failed: ", status, " - ", "body">>
ApiFailedMsg(status) == <<"API request failed: ", status, " - ", "body">>
BadJsonMsg == <<"Unexpected token in JSON">>
RequiredMsg(a) ==
  CASE a = "lookup" -> <<"code required for lookup">>
    [] a = "search" -> <<"query required for search">>
    [] a = "browse" -> <<"category required for browse">>
    [] a = "children" -> <<"code required for children">>
    [] a = "qualifier" -> <<"qualifier value required">>
    [] OTHER -> <<"path required for api">>
InvalidCategoryMsg == <<"Invalid category. Must be one of: ", "b, s, d, e">>

ConfigError == Err(<<"Error: WHO ICD-API credentials not configured">>)
NotFoundText == Ok(<<"ICF code not found. Use search to find codes.">>)
LeafText == Ok(<<"No child codes found. This may be a leaf-level code.">>)
NoCodesText == Ok(<<"No ICF codes found. Try different search terms.">>)

(* --------------------------- the token cache -------------------------- *)
\* (variant: the expiry is never looked at)
NeedsAuthNoExpiry(tokc, exp, n) == tokc = NoToken

\* ensureToken's test: no token, or the recorded expiry has been reached.
NeedsAuth(tokc, exp, n) == tokc = NoToken \/ n >= exp

\* authenticate on a 2xx answer: the expiry recorded for lifetime e (s).
Expiry(n, e) == n + (e - SafetyMargin) * MsPerSecond

\* (variant: the value read before the exchange is handed on)
EnsureTokenReturnEarly(before, after) == before

\* ensureToken after authenticate returned: this.accessToken is read again,
\* so the token handed on is the cache as it is after the exchange.
EnsureTokenReturn(before, after) == after

\* apiRequest on a 401 answer: the cached token is dropped.
TokenAfter401(tokc) == NoToken

\* (variant: every failed answer drops the cached token, as a 401 does)
TokenAfterFailCleared(tokc) == NoToken

\* apiRequest on a non-2xx answer other than 401, or on a body that is not
\* JSON: the exception is thrown and the cached token is left alone.
TokenAfterFail(tokc) == tokc

\* (variant: a failed exchange drops the cached token)
TokenAfterAuthFailCleared(tokc) == NoToken

\* authenticate on a non-2xx answer: the exception is thrown before
\* accessToken and tokenExpiry are assigned.
TokenAfterAuthFail(tokc) == tokc

\* (variant: a client is constructed on every call)
MakesClientAlways(c, cr) == cr

\* MyMCP.getClient: a client is constructed when there is none yet and the
\* credentials are configured.
MakesClient(c, cr) == ~c /\ cr

\* (variant: the value of getClient is not tested for null)
GetClientUnchecked(c, cr) == TRUE

\* MyMCP.getClient: whether the caller gets a client.
GetClient(c, cr) == c \/ MakesClient(c, cr)

(* ------------------------- the request primitive ---------------------- *)
\* The handler returns: its result stays, the request's locals are gone.
Finish(tr, res) ==
  [tr EXCEPT !.pc = "done", !.result = res, !.stage = "none", !.tok = NoToken,
             !.attempts = 0, !.idx = 0, !.reqExch = 0, !.prevTok = NoToken,
             !.mine = NoToken, !.stale = FALSE]

\* fetch(url, {Authorization: Bearer tk}) is issued and awaited.
Fetch(tr, tk) ==
  [tr EXCEPT !.pc = "http", !.tok = tk, !.attempts = @ + 1]

\* One pass through apiRequest up to its first network call: ensureToken
\* either starts the token exchange or hands the cached token to the fetch.
Attempt(tr, tokc, exp, n) ==
  IF NeedsAuth(tokc, exp, n)
  THEN [tr EXCEPT !.pc = "auth", !.reqExch = @ + 1]
  ELSE Fetch(tr, tokc)

\* (variant: ensureToken tests the cache again after authenticate returned)
EnsureTokenLoop(tr, tokc, exp, n) == Attempt(tr, tokc, exp, n)

\* ensureToken after authenticate returned: an `if`, not a loop; the token
\* is handed to the fetch without a second look at the expiry.
EnsureTokenAfterAuth(tr, tokc, exp, n) == Fetch(tr, tokc)

\* A call of apiRequest from a client method, for the endpoint of `stage`.
ApiRequest(tr, stage, tokc, exp, n) ==
  Attempt([tr EXCEPT !.stage = stage, !.attempts = 0, !.reqExch = 0,
                     !.prevTok = NoToken, !.mine = NoToken,
                     !.stale = (tokc = NoToken \/ n >= exp)],
          tokc, exp, n)

\* apiRequest on a 401 answer: re-enter apiRequest for the same endpoint.
On401(tr, tokc, exp, n) == Attempt(tr, tokc, exp, n)

(* ------------------------------ rendering ----------------------------- *)
EntityText == Ok(<<"**code**: title">>)
OverviewText == Ok(<<"International Classification of Functioning">>)
HelpText == Ok(<<"# ICF MCP Server">>)

\* handleChildren: the leaf text for an empty list, else one line per child.
HandleChildren(tr) ==
  IF Len(tr.acc) = 0
  THEN Finish(tr, LeafText)
  ELSE Finish(tr, Ok(<<"Child codes under code:">> \o tr.acc))

\* handleSearch on the list client.search returned (n entries).
HandleSearch(tr, n) ==
  IF n = 0
  THEN Finish(tr, NoCodesText)
  ELSE Finish(tr, Ok(<<"ICF Search Results", ToString(n)>>))

\* String.prototype.toLowerCase on the category strings.
ToLowerCase(c) ==
  CASE c = "B" -> "b"
    [] c = "S" -> "s"
    [] c = "D" -> "d"
    [] c = "E" -> "e"
    [] OTHER -> c

\* cat in categoryMap
InCategoryMap(cat) == cat \in CategoryKeys \cup ObjectPrototypeKeys

\* categoryMap[cat]: the name of an own key, else the inherited property
\* (for "constructor" the function Object).
CategoryName(cat) ==
  CASE cat = "b" -> "Body Functions"
    [] cat = "s" -> "Body Structures"
    [] cat = "d" -> "Activities and Participation"
    [] cat = "e" -> "Environmental Factors"
    [] OTHER -> "function Object() { [native code] }"

\* getCategoryDescription: descriptions[category] || ""
CategoryDescription(cat) ==
  CASE cat = "b" -> "Body Functions are the physiological functions"
    [] cat = "s" -> "Body Structures are anatomical parts of the body"
    [] cat = "d" -> "Activities and Participation covers the execution"
    [] cat = "e" -> "Environmental Factors make up the environment"
    [] cat \in ObjectPrototypeKeys -> "function Object() { [native code] }"
    [] OTHER -> ""

\* handleBrowse on the value browseCategory returned.
HandleBrowse(tr, n) ==
  LET cat == ToLowerCase(tr.arg)
  IN Finish(tr, Ok(<<"ICF Category: ", CategoryName(cat),
                     CategoryDescription(cat), ToString(n)>>))

\* handleQualifier's table: level, percentage range, description.
Qualifiers(q) ==
  CASE q = "0" -> <<"No problem", "0-4%", "None, absent, negligible">>
    [] q = "1" -> <<"Mild problem", "5-24%", "Slight, low">>
    [] q = "2" -> <<"Moderate problem", "25-49%", "Medium, fair">>
    [] q = "3" -> <<"Severe problem", "50-95%", "High, extreme">>
    [] q = "4" -> <<"Complete problem", "96-100%", "Total">>
    [] q = "8" -> <<"Not specified", "N/A",
                    "Insufficient information to specify severity">>
    [] q = "9" -> <<"Not applicable", "N/A",
                    "Inappropriate to apply this code">>

\* handleQualifier: the entry of the table, or the invalid-value text
\* (which lists the keys), neither with an error flag.
HandleQualifier(tr) ==
  IF tr.arg \in QualifierKeys
  THEN Finish(tr, Ok(<<"ICF Qualifier ", tr.arg>> \o Qualifiers(tr.arg)))
  ELSE Finish(tr, Ok(<<"Invalid qualifier ", tr.arg, " Valid: ",
                       "0", "1", "2", "3", "4", "8", "9">>))

(* ------------------------- where exceptions land ---------------------- *)
\* (variant: the catch reports a fixed text and drops the message)
HandleActionCatchGeneric(tr, msg) == Finish(tr, Err(<<"Error: ", "failed">>))

\* (variant: there is no catch, the exception leaves handleAction)
HandleActionNoCatch(tr, msg) == Finish(tr, Escaped(msg))

\* handleAction's catch: an error result carrying the message.
HandleActionCatch(tr, msg) == Finish(tr, Err(<<"Error: ">> \o msg))

\* handleBrowse's catch: String(error), which is "Error: " + message.
HandleBrowseCatch(tr, msg) == Finish(tr, Err(<<"Error: ">> \o msg))

\* (variant: the catch reports a fixed text and drops the message)
HandleApiCatchGeneric(tr, msg) == Finish(tr, Err(<<"API Error: ", "failed">>))

\* handleApi's catch.
HandleApiCatch(tr, msg) == Finish(tr, Err(<<"API Error: ">> \o msg))

\* getEntityByCode returned null to handleLookup or to getChildren.
EntityNull(tr) ==
  IF tr.action = "lookup" THEN Finish(tr, NotFoundText) ELSE HandleChildren(tr)

\* (variant: the failure is thrown on to the dispatcher)
GetEntityByCodeRethrow(tr, msg) == HandleActionCatch(tr, msg)

\* getEntityByCode's catch (codeinfo request) and getEntityByUri's catch
\* (entity fetch made for getEntityByCode): the failure becomes null.
GetEntityByCodeCatch(tr, msg) == EntityNull(tr)

\* getChildren's loop after child idx was fetched: the next child, or the
\* list is handed to handleChildren.
NextChild(tr, tokc, exp, n) ==
  IF tr.idx < Len(tr.kids)
  THEN ApiRequest([tr EXCEPT !.idx = @ + 1], "child", tokc, exp, n)
  ELSE HandleChildren(tr)

\* (variant: a resolved child is put in front of the list)
PushChildFront(tr) == [tr EXCEPT !.acc = <<tr.kids[tr.idx]>> \o @]

\* getChildren: a child that resolved is pushed, in loop order.
PushChild(tr) == [tr EXCEPT !.acc = Append(@, tr.kids[tr.idx])]

\* getEntityByUri's catch inside getChildren's loop: the child is null and
\* is not pushed.
ChildCatch(tr, msg, tokc, exp, n) == NextChild(tr, tokc, exp, n)

\* An exception thrown by apiRequest, delivered to the nearest catch.
Raise(tr, msg, tokc, exp, n) ==
  CASE tr.stage \in {"codeinfo", "entity"} -> GetEntityByCodeCatch(tr, msg)
    [] tr.stage = "child" -> ChildCatch(tr, msg, tokc, exp, n)
    [] tr.stage = "raw" -> HandleApiCatch(tr, msg)
    [] tr.action = "browse" -> HandleBrowseCatch(tr, msg)
    [] OTHER -> HandleActionCatch(tr, msg)

(* ----------------------- what the provider returns -------------------- *)
\* parseEntity's children: an array as it is, a string as a one-element
\* list, anything else undefined (no list).
ParseChildren(p) ==
  CASE p.shape = "array" -> p.list
    [] p.shape = "string" -> <<p.list[1]>>
    [] OTHER -> <<>>

Payload(stem, shape, list, n) ==
  [stem |-> stem, shape |-> shape, list |-> list, n |-> n]

\* The 2xx bodies the provider can send for the request of a task.
Payloads(tr) ==
  CASE tr.stage = "codeinfo" ->
         {Payload(b, "absent", <<>>, 0) : b \in BOOLEAN}
    [] tr.stage = "entity" /\ tr.action = "children" ->
         {Payload(TRUE, "absent", <<>>, 0)}
           \cup {Payload(TRUE, "string", <<r>>, 0) : r \in Refs}
           \cup {Payload(TRUE, "array", l, 0) : l \in ChildLists}
    [] tr.stage = "search" -> {Payload(TRUE, "absent", <<>>, n) : n \in 0..1}
    [] OTHER -> {Payload(TRUE, "absent", <<>>, 0)}

\* The code after apiRequest returned the parsed body p.
Continue(tr, p, tokc, exp, n) ==
  CASE tr.stage = "codeinfo" ->
         IF p.stem
         THEN ApiRequest(tr, "entity", tokc, exp, n)
         ELSE EntityNull(tr)
    [] tr.stage = "entity" /\ tr.action = "lookup" -> Finish(tr, EntityText)
    [] tr.stage = "entity" /\ tr.action = "children" ->
         NextChild([tr EXCEPT !.kids = ParseChildren(p), !.idx = 0],
                   tokc, exp, n)
    [] tr.stage = "child" -> NextChild(PushChild(tr), tokc, exp, n)
    [] tr.stage = "search" /\ tr.action = "browse" -> HandleBrowse(tr, p.n)
    [] tr.stage = "search" -> HandleSearch(tr, p.n)
    [] OTHER -> Finish(tr, Ok(<<"{ json }">>))

(* ------------------------------ the dispatcher ------------------------ *)
\* (variant: the required parameter is not checked)
NeverFalsy(arg) == FALSE

\* !params.code, !params.query, !params.category, !params.path
Falsy(arg) == arg \in {"missing", "empty"}

\* (variant: a falsy qualifier counts as missing)
QualifierFalsy(arg) == arg \in {"missing", "0"}

\* params.qualifier === undefined
QualifierMissing(arg) == arg = "missing"

\* browseCategory: throws for a category outside b, s, d, e, else searches.
BrowseCategory(tr, tokc, exp, n) ==
  IF ~InCategoryMap(ToLowerCase(tr.arg))
  THEN HandleBrowseCatch(tr, InvalidCategoryMsg)
  ELSE ApiRequest(tr, "search", tokc, exp, n)

\* rawRequest: the request primitive applied to the path as given.
RawRequest(tr, tokc, exp, n) == ApiRequest(tr, "raw", tokc, exp, n)

\* (variant: every path is taken to start with "/")
StartsWithSlashAlways(path) == TRUE

\* path.startsWith("/"): of the paths of ArgsOf("api"), "ok" does.
StartsWithSlash(path) == path = "ok"

\* handleApi: the path must start with "/".
HandleApi(tr, tokc, exp, n) ==
  IF ~StartsWithSlash(tr.arg)
  THEN Finish(tr, Err(<<"Path must start with /">>))
  ELSE RawRequest(tr, tokc, exp, n)

\* handleAction's switch, up to the first network call or the result.
HandleAction(tr, tokc, exp, n) ==
  CASE tr.action \in {"lookup", "children"} ->
         IF Falsy(tr.arg)
         THEN HandleActionCatch(tr, RequiredMsg(tr.action))
         ELSE ApiRequest(tr, "codeinfo", tokc, exp, n)
    [] tr.action = "search" ->
         IF Falsy(tr.arg)
         THEN HandleActionCatch(tr, RequiredMsg(tr.action))
         ELSE ApiRequest(tr, "search", tokc, exp, n)
    [] tr.action = "browse" ->
         IF Falsy(tr.arg)
         THEN HandleActionCatch(tr, RequiredMsg(tr.action))
         ELSE BrowseCategory(tr, tokc, exp, n)
    [] tr.action = "qualifier" ->
         IF QualifierMissing(tr.arg)
         THEN HandleActionCatch(tr, RequiredMsg(tr.action))
         ELSE HandleQualifier(tr)
    [] tr.action = "overview" -> Finish(tr, OverviewText)
    [] tr.action = "api" ->
         IF Falsy(tr.arg)
         THEN HandleActionCatch(tr, RequiredMsg(tr.action))
         ELSE HandleApi(tr, tokc, exp, n)
    [] tr.action = "help" -> Finish(tr, HelpText)
    [] OTHER -> Finish(tr, Err(<<"Unknown action: ", tr.action>>))

(* ------------------- result lists and their rendering ----------------- *)
\* The provider's destinationEntities: n entities, entity i at rank i.
Entities(n) == [i \in 1..n |-> i]

\* The max_results a caller can send: absent, or a number.
MaxResultsInputs ==
  {[given |-> FALSE, val |-> 0]}
    \cup {[given |-> TRUE, val |-> v] : v \in 0..MaxRequested}

\* Array.prototype.slice(0, end): a negative end counts from the back.
Slice(list, end) ==
  LET len == Len(list)
      stop == IF end < 0
              THEN (IF len + end < 0 THEN 0 ELSE len + end)
              ELSE (IF end > len THEN len ELSE end)
  IN SubSeq(list, 1, stop)

\* client.search: entities.slice(0, maxResults), one result per entity.
Search(entities, maxResults) == Slice(entities, maxResults)

\* params.max_results || 10: undefined and 0 are falsy.
MaxResultsOrDefault(mr) ==
  IF ~mr.given \/ mr.val = 0 THEN DefaultMaxResults ELSE mr.val

\* handleSearch's text: the no-codes text for an empty list, else the
\* header and one line "i. code: title" per result, in list order.
SearchText(results) ==
  IF Len(results) = 0
  THEN [res |-> NoCodesText, lines |-> <<>>]
  ELSE [res |-> Ok(<<"ICF Search Results">>),
        lines |-> [i \in 1..Len(results) |-> <<i, results[i]>>]]

\* The search action: handleAction's case "search", then handleSearch.
SearchAction(entities, mr) ==
  SearchText(Search(entities, MaxResultsOrDefault(mr)))

\* browseCategory's results: this.search(categoryMap[cat], 20).
BrowseResults(entities) == Search(entities, BrowseLimit)

\* (variant: every result is rendered)
BrowseSampleAll(results) == results

\* handleBrowse's sample lines: one per entry of result.results.slice(0, 10).
BrowseSample(results) == Slice(results, SampleLimit)

(* --------------------------- parseEntity: title ----------------------- *)
\* The JSON values a body can hold at data.title and, for an object, at
\* its "@value" member.  "string" is "Walking", "number" is 7, "array" is
\* ["Walking"], "object" is {"en": "Walking"}, and "objectOwnToString" is an
\* object with a member named toString that is not a function
\* ({"toString": 1}).
ValueKinds ==
  {"undefined", "null", "emptyString", "string", "zero", "number", "array",
   "object", "objectOwnToString"}

\* data.title: a value that is no wrapper (at = "none"), or the object
\* {"@value": v} for a value v.
Titles ==
  {[kind |-> k, at |-> "none"] : k \in ValueKinds}
    \cup {[kind |-> "wrapper", at |-> v] : v \in ValueKinds \ {"undefined"}}

\* A value while parseEntity handles it: its kind, and its text if it is a
\* string.
Value(k) ==
  [kind |-> k,
   str |-> CASE k = "string" -> "Walking" [] OTHER -> ""]
StringValue(str) ==
  [kind |-> IF str = "" THEN "emptyString" ELSE "string", str |-> str]

\* typeof v === "object" && v !== null
IsObject(k) == k \in {"array", "object", "objectOwnToString", "wrapper"}

\* the values that count as true in `a || b`
Truthy(k) ==
  k \in {"string", "number", "array", "object", "objectOwnToString", "wrapper"}

\* JSON.stringify of a title that is an object
Stringify(title) ==
  CASE title.kind = "array" -> "[\"Walking\"]"
    [] title.kind = "object" -> "{\"en\":\"Walking\"}"
    [] title.kind = "objectOwnToString" -> "{\"toString\":1}"
    [] title.at = "null" -> "{\"@value\":null}"
    [] title.at = "emptyString" -> "{\"@value\":\"\"}"
    [] title.at = "zero" -> "{\"@value\":0}"
    [] OTHER -> "{\"@value\":...}"

\* String(v).  For an object the conversion calls its toString, then its
\* valueOf: an own toString that is not a function is skipped, the
\* inherited valueOf returns the object itself, and a TypeError is thrown.
ToStringJS(v) ==
  CASE v.kind \in {"string", "emptyString"} -> [threw |-> FALSE, str |-> v.str]
    [] v.kind = "number" -> [threw |-> FALSE, str |-> "7"]
    [] v.kind = "zero" -> [threw |-> FALSE, str |-> "0"]
    [] v.kind = "array" -> [threw |-> FALSE, str |-> "Walking"]
    [] v.kind = "object" -> [threw |-> FALSE, str |-> "[object Object]"]
    [] v.kind = "objectOwnToString" ->
         [threw |-> TRUE, str |-> "TypeError: Cannot convert object to primitive value"]
    [] v.kind = "null" -> [threw |-> FALSE, str |-> "null"]
    [] OTHER -> [threw |-> FALSE, str |-> "undefined"]

\* title["@value"] of an object title: the member, or undefined.
AtValue(title) ==
  IF title.kind = "wrapper" THEN Value(title.at) ELSE Value("undefined")

\* parseEntity's title: an object title is replaced by its "@value" or,
\* when that is falsy, by its serialization; then String(title || "").
ParseTitle(title) ==
  LET t1 == IF IsObject(title.kind)
            THEN (IF Truthy(AtValue(title).kind)
                  THEN AtValue(title)
                  ELSE StringValue(Stringify(title)))
            ELSE Value(title.kind)
      t2 == IF Truthy(t1.kind) THEN t1 ELSE StringValue("")
  IN ToStringJS(t2)

(* -------------------------------- actions ----------------------------- *)
Init ==
  /\ creds \in BOOLEAN
  /\ client = FALSE
  /\ accessToken = NoToken
  /\ tokenExpiry = 0
  /\ now = Now0
  /\ issued = 0
  /\ n401 = 0
  /\ calls = 0
  /\ task = [t \in Tasks |-> IdleTask]

\* A tool invocation: the client is obtained for the actions that use it
\* (a missing client is reported), then handleAction runs.
Invoke(t, A) ==
  /\ task[t].pc = "idle"
  /\ calls < MaxCalls
  /\ calls' = calls + 1
  /\ \E a \in A : \E arg \in ArgsOf(a) :
       LET tr == [IdleTask EXCEPT !.action = a, !.arg = arg]
           made == a \in ClientActions /\ MakesClient(client, creds)
           tokc == IF made THEN NoToken ELSE accessToken
           exp == IF made THEN 0 ELSE tokenExpiry
       IN /\ client' = IF a \in ClientActions
                       THEN GetClient(client, creds) ELSE client
          /\ accessToken' = tokc
          /\ tokenExpiry' = exp
          /\ task' = [task EXCEPT ![t] =
               IF a \in ClientActions /\ ~client'
               THEN Finish(tr, ConfigError)
               ELSE HandleAction(tr, tokc, exp, now)]
  /\ UNCHANGED <<creds, now, issued, n401>>

\* The provider answers the token exchange of task t with 2xx, reporting
\* a lifetime of L.
TokenOkWith(t, L) ==
  /\ task[t].pc = "auth"
  /\ \E e \in L :
       /\ issued' = issued + 1
       /\ accessToken' = issued + 1
       /\ tokenExpiry' = Expiry(now, e)
       /\ task' = [task EXCEPT ![t] =
            EnsureTokenAfterAuth([@ EXCEPT !.mine = issued + 1],
                                 EnsureTokenReturn(accessToken, accessToken'),
                                 tokenExpiry', now)]
  /\ UNCHANGED <<creds, client, now, n401, calls>>

TokenOk(t) == TokenOkWith(t, Lifetimes)

\* The provider answers the token exchange of task t with a non-2xx status.
TokenFail(t) ==
  /\ task[t].pc = "auth"
  /\ accessToken' = TokenAfterAuthFail(accessToken)
  /\ \E s \in AuthFailStatuses :
       task' = [task EXCEPT ![t] =
         Raise([@ EXCEPT !.raised = AuthFailedMsg(s),
                         !.okKids = IF task[t].stage = "child"
                                    THEN Append(@, FALSE) ELSE @],
               AuthFailedMsg(s), accessToken', tokenExpiry, now)]
  /\ UNCHANGED <<creds, client, tokenExpiry, now, issued, n401, calls>>

\* The provider answers the fetch of task t with 401.
Http401(t) ==
  /\ task[t].pc = "http"
  /\ n401 < Max401
  /\ n401' = n401 + 1
  /\ accessToken' = TokenAfter401(accessToken)
  /\ task' = [task EXCEPT ![t] =
       On401([@ EXCEPT !.prevTok = task[t].tok], accessToken', tokenExpiry, now)]
  /\ UNCHANGED <<creds, client, tokenExpiry, now, issued, calls>>

\* The provider answers the fetch of task t with another non-2xx status, or
\* with a 2xx whose body is not JSON.
HttpFail(t) ==
  /\ task[t].pc = "http"
  /\ accessToken' = TokenAfterFail(accessToken)
  /\ \E msg \in {ApiFailedMsg(s) : s \in ApiFailStatuses} \cup {BadJsonMsg} :
       task' = [task EXCEPT ![t] =
         Raise([@ EXCEPT !.raised = msg,
                         !.okKids = IF task[t].stage = "child"
                                    THEN Append(@, FALSE) ELSE @],
               msg, accessToken', tokenExpiry, now)]
  /\ UNCHANGED <<creds, client, tokenExpiry, now, issued, n401, calls>>

\* The provider answers the fetch of task t with 2xx and a JSON body.
HttpOk(t) ==
  /\ task[t].pc = "http"
  /\ \E p \in Payloads(task[t]) :
       task' = [task EXCEPT ![t] =
         Continue([@ EXCEPT !.noStem = (task[t].stage = "codeinfo" /\ ~p.stem),
                            !.okKids = IF task[t].stage = "child"
                                       THEN Append(@, TRUE) ELSE @],
                  p, accessToken, tokenExpiry, now)]
  /\ UNCHANGED <<creds, client, accessToken, tokenExpiry, now, issued, n401, calls>>

\* The caller takes the result; the task can be invoked again.
Return(t) ==
  /\ task[t].pc = "done"
  /\ task' = [task EXCEPT ![t] = IdleTask]
  /\ UNCHANGED <<creds, client, accessToken, tokenExpiry, now, issued, n401, calls>>

\* Wall-clock time passes.
Tick ==
  /\ now < Now0 + MaxTicks * TickMs
  /\ now' = now + TickMs
  /\ UNCHANGED <<creds, client, accessToken, tokenExpiry, issued, n401, calls, task>>

\* One invocation at a time, every action.
Next ==
  \/ \E t \in Solo : Invoke(t, Actions)
  \/ \E t \in Solo : TokenOk(t)
  \/ \E t \in Solo : TokenFail(t)
  \/ \E t \in Solo : Http401(t)
  \/ \E t \in Solo : HttpFail(t)
  \/ \E t \in Solo : HttpOk(t)
  \/ \E t \in Solo : Return(t)
  \/ Tick

Spec == Init /\ [][Next]_vars

\* Concurrent invocations sharing the client, for the actions whose client
\* method makes one request (search) or two in a row (lookup).
ConcActions == {"lookup", "search"}

NextConc ==
  \/ \E t \in Tasks : Invoke(t, ConcActions)
  \/ \E t \in Tasks : TokenOk(t)
  \/ \E t \in Tasks : TokenFail(t)
  \/ \E t \in Tasks : Http401(t)
  \/ \E t \in Tasks : HttpFail(t)
  \/ \E t \in Tasks : HttpOk(t)
  \/ Tick

SpecConc == Init /\ [][NextConc]_vars

\* Calls one after another inside the validity window of the cached token:
\* every recorded expiry is later than the time of issue, the clock never
\* reaches a recorded expiry, and the provider never answers 401.
NextSeq ==
  \/ \E t \in Solo : Invoke(t, Actions)
  \/ \E t \in Solo : TokenOk(t) /\ now < tokenExpiry'
  \/ \E t \in Solo : TokenFail(t)
  \/ \E t \in Solo : HttpFail(t)
  \/ \E t \in Solo : HttpOk(t)
  \/ \E t \in Solo : Return(t)
  \/ Tick /\ (accessToken = NoToken \/ now' < tokenExpiry)

SpecSeq == Init /\ [][NextSeq]_vars

\* The functions of the dispatcher and of the client that depend only on
\* their arguments and on the body the provider sent, applied once to an
\* input drawn from the input sets; `task` holds the input and the value.
InitFn ==
  /\ creds = TRUE
  /\ client = FALSE
  /\ accessToken = NoToken
  /\ tokenExpiry = 0
  /\ now = Now0
  /\ issued = 0
  /\ n401 = 0
  /\ calls = 0
  /\ task = [fn |-> "none"]

\* The search action on a provider list of n entities.
ApplySearch ==
  /\ task.fn = "none"
  /\ \E n \in 0..MaxN : \E mr \in MaxResultsInputs :
       task' = [fn |-> "search", n |-> n, mr |-> mr,
                out |-> SearchAction(Entities(n), mr)]
  /\ UNCHANGED <<creds, client, accessToken, tokenExpiry, now, issued, n401, calls>>

\* parseEntity on a body whose title is the value drawn.
ApplyParseTitle ==
  /\ task.fn = "none"
  /\ \E title \in Titles :
       task' = [fn |-> "title", title |-> title, out |-> ParseTitle(title)]
  /\ UNCHANGED <<creds, client, accessToken, tokenExpiry, now, issued, n401, calls>>

\* browseCategory for a valid category on a provider list of n entities,
\* then handleBrowse.
ApplyBrowse ==
  /\ task.fn = "none"
  /\ \E n \in 0..MaxN :
       LET results == BrowseResults(Entities(n))
       IN task' = [fn |-> "browse", n |-> n, results |-> results,
                   lines |-> BrowseSample(results)]
  /\ UNCHANGED <<creds, client, accessToken, tokenExpiry, now, issued, n401, calls>>

NextFn ==
  \/ ApplySearch
  \/ ApplyBrowse
  \/ ApplyParseTitle

SpecFn == InitFn /\ [][NextFn]_vars

\* One invocation against a provider that may answer 401 any number of
\* times.  What the program itself holds is kept (the cached token and
\* expiry, the task's position, stage, token and lists); the provider
\* issues the same token string at every exchange, and the history of the
\* request, which the program does not hold, is not kept across a retry.
Forget(tr) ==
  [tr EXCEPT !.attempts = IF @ > 1 THEN 1 ELSE @,
             !.reqExch = IF @ > 1 THEN 1 ELSE @,
             !.prevTok = NoToken, !.mine = NoToken]

\* The provider answers the token exchange of task t with 2xx.
LiveTokenOk(t) ==
  /\ task[t].pc = "auth"
  /\ \E e \in Lifetimes :
       /\ issued' = 1
       /\ accessToken' = 1
       /\ tokenExpiry' = Expiry(now, e)
       /\ task' = [task EXCEPT ![t] =
            Forget(Fetch(@, EnsureTokenReturn(accessToken, accessToken')))]
  /\ UNCHANGED <<creds, client, now, n401, calls>>

\* The provider answers the fetch of task t with 401.
LiveHttp401(t) ==
  /\ task[t].pc = "http"
  /\ accessToken' = TokenAfter401(accessToken)
  /\ task' = [task EXCEPT ![t] =
       Forget(On401(@, accessToken', tokenExpiry, now))]
  /\ UNCHANGED <<creds, client, tokenExpiry, now, issued, n401, calls>>

\* Some answer arrives for the network call task t is waiting for.
Answer(t) ==
  \/ LiveTokenOk(t)
  \/ TokenFail(t)
  \/ LiveHttp401(t)
  \/ HttpFail(t)
  \/ HttpOk(t)

NextLive ==
  \/ \E t \in Solo : Invoke(t, Actions)
  \/ \E t \in Solo : Answer(t)
  \/ \E t \in Solo : Return(t)

\* Every network call is answered in the end.
SpecLive ==
  Init /\ [][NextLive]_vars /\ WF_vars(\E t \in Solo : Answer(t))

\* A provider whose tokens all have a lifetime within the safety margin:
\* the expiry recorded for a token is never later than its time of issue.
NextShort ==
  \/ \E t \in Solo : Invoke(t, Actions)
  \/ \E t \in Solo : TokenOkWith(t, ShortLifetimes)
  \/ \E t \in Solo : TokenFail(t)
  \/ \E t \in Solo : Http401(t)
  \/ \E t \in Solo : HttpFail(t)
  \/ \E t \in Solo : HttpOk(t)
  \/ \E t \in Solo : Return(t)
  \/ Tick

SpecShort == Init /\ [][NextShort]_vars

(* ============================ properties ============================== *)

\* C1: one call of apiRequest issues at most two resource fetches, whatever
\* the provider answers: after 401 on the first fetch and 401 on the retry
\* there is no third fetch.
C1_AtMostTwoAttempts == \A t \in Tasks : task[t].attempts <= 2

\* C2: after a 401 on the first fetch the cached token is dropped, exactly
\* one new exchange is made, and the same request is issued again exactly
\* once, carrying the token of that exchange and not the one that was
\* refused.
C2_RetryOnceWithNewToken ==
  \A t \in Tasks :
    LET tr == task[t] IN
      /\ (tr.pc = "auth" /\ tr.prevTok # NoToken) =>
           /\ accessToken = NoToken
           /\ tr.reqExch = (IF tr.stale THEN 2 ELSE 1)
      /\ tr.attempts >= 2 =>
           /\ tr.attempts = 2
           /\ tr.reqExch = (IF tr.stale THEN 2 ELSE 1)
           /\ tr.tok = tr.mine
           /\ tr.tok \in 1..issued
           /\ tr.tok # tr.prevTok

\* C3: a request never starts on a cached token whose recorded expiry has
\* been reached.  A request begun with no token, or at or after the
\* recorded expiry, makes exactly one exchange before its fetch and carries
\* the token of that exchange; only a request begun before the expiry
\* carries the cached token, without any exchange.
C3_NoExpiredTokenUse ==
  \A t \in Tasks :
    LET tr == task[t] IN
      /\ (tr.pc = "auth" /\ tr.attempts = 0) => (tr.stale /\ tr.reqExch = 1)
      /\ (tr.pc = "http" /\ tr.attempts = 1) =>
           IF tr.stale
           THEN tr.reqExch = 1 /\ tr.tok = tr.mine /\ tr.tok = issued
           ELSE tr.reqExch = 0 /\ tr.mine = NoToken /\ tr.tok \in 1..issued

\* C3 witness: with no 401 ever answered, a request found the first token
\* expired, exchanged once and now carries the second token.
C3_Witness ==
  \E t \in Tasks :
    /\ task[t].pc = "http" /\ task[t].attempts = 1 /\ task[t].stale
    /\ task[t].tok = 2 /\ n401 = 0

\* C4: calls made one after another on the same client, while the clock
\* stays before the recorded expiry and no 401 is answered, make one token
\* exchange in total: once a token is cached no further exchange is started
\* and every fetch carries that first token.
C4_OneExchange ==
  /\ issued <= 1
  /\ \A t \in Tasks :
       /\ (task[t].pc = "auth") => accessToken = NoToken
       /\ (task[t].pc = "http") => (issued = 1 /\ task[t].tok = 1)

\* C4 witness: the second call, after the clock moved, reuses the token of
\* the first call's exchange.
C4_Witness ==
  \E t \in Tasks :
    /\ calls = 2 /\ now > Now0 /\ task[t].pc = "http"
    /\ ~task[t].stale /\ task[t].tok = 1 /\ issued = 1

\* C5 (as claimed): a token exchange answered non-2xx during lookup, search,
\* browse, children or api ends the invocation in an error result that
\* carries the provider's status and body.
C5_AuthFailureAlwaysFatal ==
  \A t \in Tasks :
    LET tr == task[t] IN
      (tr.pc = "done" /\ tr.raised \in {AuthFailedMsg(s) : s \in AuthFailStatuses})
        => /\ tr.result.isError
           /\ tr.result.text \in {<<"Error: ">> \o tr.raised,
                                  <<"API Error: ">> \o tr.raised}

\* C5 (amended): a token exchange answered non-2xx during search, browse or
\* api ends the invocation at once (no further exchange or fetch) in an
\* error result carrying the provider's status and body; during lookup it
\* ends the invocation in the not-found text without error flag, and during
\* children it never produces an error flag.
C5_AuthFailureFatalWhereSurfaced ==
  \A t \in Tasks :
    LET tr == task[t] IN
      tr.raised \in {AuthFailedMsg(s) : s \in AuthFailStatuses} =>
        CASE tr.action \in {"search", "browse"} ->
               tr.pc = "done" /\ tr.result = Err(<<"Error: ">> \o tr.raised)
          [] tr.action = "api" ->
               tr.pc = "done" /\ tr.result = Err(<<"API Error: ">> \o tr.raised)
          [] tr.action = "lookup" ->
               tr.pc = "done" /\ tr.result = NotFoundText
          [] OTHER ->
               tr.action = "children" /\ (tr.pc = "done" => ~tr.result.isError)

\* C5 witness: a search whose exchange was answered 503 ended in the error
\* result carrying that status.
C5_Witness ==
  \E t \in Tasks :
    /\ task[t].pc = "done" /\ task[t].action = "search"
    /\ task[t].raised = AuthFailedMsg("503")
    /\ task[t].result = Err(<<"Error: ">> \o AuthFailedMsg("503"))

\* C6: under every interleaving of concurrent requests on one client, no
\* request waits for anything but the provider's answer to its own call, and
\* every fetch carries a token that some successful exchange returned, never
\* the absent token.
C6_NoCorruptCredential ==
  \A t \in Tasks :
    /\ task[t].pc = "http" => task[t].tok \in 1..issued
    /\ task[t].pc = "auth" => ENABLED (TokenOk(t) \/ TokenFail(t))
    /\ task[t].pc = "http" => ENABLED (HttpOk(t) \/ HttpFail(t))

\* C6 witness: one task's 401 cleared the cache while the other task was
\* exchanging; the other task then finished its exchange and is fetching
\* with its own token while the first one is exchanging again.
C6_Witness ==
  \E t \in Tasks : \E u \in Tasks \ {t} :
    /\ task[t].pc = "http" /\ task[t].stale /\ task[t].tok = task[t].mine
    /\ task[u].pc = "auth" /\ task[u].prevTok # NoToken
    /\ task[u].prevTok < task[t].tok
    /\ accessToken = task[t].tok

C8_ValidationBeforeClient ==
  [][\A t \in Tasks :
       ( /\ task[t].pc = "idle" /\ task'[t].pc # "idle"
         /\ task'[t].arg = "missing"
         /\ task'[t].action \in ClientActions \cup {"qualifier"}
         /\ (task'[t].action \in ClientActions => creds) )
       => /\ task'[t].pc = "done"
          /\ task'[t].result = Err(<<"Error: ">> \o RequiredMsg(task'[t].action))
          /\ UNCHANGED <<accessToken, tokenExpiry, issued>>]_vars

\* C8 witness: a lookup without code was refused while a token obtained by
\* an earlier call stays cached.
C8_Witness ==
  \E t \in Tasks :
    /\ task[t].pc = "done" /\ task[t].action = "lookup" /\ task[t].arg = "missing"
    /\ task[t].result = Err(<<"Error: ">> \o RequiredMsg("lookup"))
    /\ accessToken # NoToken

\* C9: lookup treats non-resolution as absence: when the code lookup yields
\* no stem identifier, or the code-lookup request or the entity fetch fails,
\* the result is the not-found text without error flag; otherwise it is the
\* formatted entity.
C9_LookupAbsenceIsNotAnError ==
  \A t \in Tasks :
    LET tr == task[t] IN
      (tr.pc = "done" /\ tr.action = "lookup" /\ tr.arg = "ok" /\ creds) =>
        /\ ~tr.result.isError /\ ~tr.result.escaped
        /\ (tr.noStem \/ tr.raised # <<>>) => tr.result = NotFoundText
        /\ (~tr.noStem /\ tr.raised = <<>>) => tr.result = EntityText

\* C9 witness: a lookup whose request failed with status 404 ended in the
\* not-found text.
C9_Witness ==
  \E t \in Tasks :
    /\ task[t].pc = "done" /\ task[t].action = "lookup"
    /\ task[t].raised = ApiFailedMsg("404")
    /\ task[t].result = NotFoundText

\* C10: children returns one line per child whose fetch succeeded, in the
\* order the parent declares them, leaving out every child whose fetch
\* failed; with no child reference, or none resolved, it returns the
\* leaf-level text; never an error flag.
C10_ChildrenInDeclaredOrder ==
  \A t \in Tasks :
    LET tr == task[t]
        keep[i \in 0..Len(tr.kids)] ==
          IF i = 0 THEN <<>>
          ELSE IF tr.okKids[i] THEN Append(keep[i - 1], tr.kids[i])
               ELSE keep[i - 1]
    IN (tr.pc = "done" /\ tr.action = "children" /\ tr.arg = "ok" /\ creds) =>
         /\ Len(tr.okKids) = Len(tr.kids)
         /\ tr.result = IF keep[Len(tr.kids)] = <<>>
                        THEN LeafText
                        ELSE Ok(<<"Child codes under code:">> \o keep[Len(tr.kids)])

\* C10 witness: of the declared children c2, c1 the first failed and the
\* second resolved; the result lists c1 alone.
C10_Witness ==
  \E t \in Tasks :
    /\ task[t].pc = "done" /\ task[t].action = "children"
    /\ task[t].kids = <<"c2", "c1">> /\ task[t].okKids = <<FALSE, TRUE>>
    /\ task[t].result = Ok(<<"Child codes under code:", "c1">>)

\* C11: for a provider list of N entities and every max_results the caller
\* sends (absent meaning 10), the search action returns min(N, max_results)
\* numbered entries in the provider's order, and the no-codes text without
\* an error flag when that number is zero.
C11_SearchReturnsMinOfBoth ==
  task.fn = "search" =>
    LET requested == IF task.mr.given THEN task.mr.val ELSE 10
        count == IF task.n < requested THEN task.n ELSE requested
    IN /\ task.out.lines = [i \in 1..count |-> <<i, i>>]
       /\ ~task.out.res.isError
       /\ (count = 0) <=> (task.out.res = NoCodesText)

\* C12: browse accepts exactly the inputs equal to b, s, d or e ignoring
\* case, and returns that category's name and description; every other
\* supplied string ends at once in an error result (for a non-empty one,
\* the result naming the four letters), with no token exchange and no
\* search request.
C12_BrowseAcceptsOnlyFourLetters ==
  \A t \in Tasks :
    LET tr == task[t]
        letter == tr.arg \in {"b", "s", "d", "e", "B", "S", "D", "E"}
    IN (tr.action = "browse" /\ tr.pc # "idle" /\ creds
          /\ tr.arg # "missing") =>
         /\ (letter /\ tr.pc = "done" /\ tr.raised = <<>>) =>
              /\ ~tr.result.isError
              /\ tr.arg = "D" =>
                   SubSeq(tr.result.text, 1, 3) =
                     <<"ICF Category: ", "Activities and Participation",
                       "Activities and Participation covers the execution">>
         /\ ~letter =>
              /\ tr.pc = "done"
              /\ tr.result.isError
              /\ tr.arg # "empty" =>
                   tr.result.text = <<"Error: ">> \o InvalidCategoryMsg

\* C13: the api action on a supplied path that does not start with "/"
\* (the empty path included) ends at once in an error result, the
\* path-must-start-with-/ text for a non-empty path; it starts no token
\* exchange and no fetch and leaves the cached token and expiry unchanged.
C13_ApiPathValidatedFirst ==
  [][\A t \in Tasks :
       ( /\ task[t].pc = "idle" /\ task'[t].pc # "idle"
         /\ task'[t].action = "api"
         /\ task'[t].arg \in {"empty", "noslash"}
         /\ creds )
       => /\ task'[t].pc = "done"
          /\ task'[t].result.isError /\ ~task'[t].result.escaped
          /\ task'[t].arg = "noslash" =>
               task'[t].result.text = <<"Path must start with /">>
          /\ UNCHANGED <<accessToken, tokenExpiry, issued>>]_vars

\* C13 witness: a path without the leading "/" was refused while a token
\* obtained by an earlier call stays cached.
C13_Witness ==
  \E t \in Tasks :
    /\ task[t].pc = "done" /\ task[t].action = "api" /\ task[t].arg = "noslash"
    /\ task[t].result = Err(<<"Path must start with /">>)
    /\ accessToken # NoToken

\* C14: the api action on a path that starts with "/" makes one call of
\* the request primitive for that path, through the token lifecycle; a 2xx
\* answer gives a result without error flag holding the printed body, a
\* failure of the provider gives an error result carrying its message.
C14_ApiPassesThrough ==
  \A t \in Tasks :
    LET tr == task[t]
    IN (tr.action = "api" /\ tr.arg = "ok" /\ creds) =>
         /\ tr.pc \in {"auth", "http"} => tr.stage = "raw"
         /\ tr.pc = "http" => tr.tok # NoToken
         /\ (tr.pc = "done" /\ tr.raised = <<>>) =>
              tr.result = Ok(<<"{ json }">>)
         /\ (tr.pc = "done" /\ tr.raised # <<>>) =>
              tr.result = Err(<<"API Error: ">> \o tr.raised)

\* C14 witness: the provider answered the fetch of an api call with 500 and
\* the result carries that status.
C14_Witness ==
  \E t \in Tasks :
    /\ task[t].pc = "done" /\ task[t].action = "api" /\ task[t].arg = "ok"
    /\ task[t].raised = ApiFailedMsg("500")
    /\ task[t].result = Err(<<"API Error: ">> \o ApiFailedMsg("500"))

\* C15: for every qualifier in 0, 1, 2, 3, 4, 8, 9 (0 included: it is not a
\* missing parameter) the qualifier action returns that key's level,
\* percentage range and description; for every other integer it returns
\* the invalid-value text listing those seven keys; no error flag either way.
C15_QualifierTable ==
  \A t \in Tasks :
    LET tr == task[t]
        q == tr.arg
        triple ==
          CASE q = "0" -> <<"No problem", "0-4%", "None, absent, negligible">>
            [] q = "1" -> <<"Mild problem", "5-24%", "Slight, low">>
            [] q = "2" -> <<"Moderate problem", "25-49%", "Medium, fair">>
            [] q = "3" -> <<"Severe problem", "50-95%", "High, extreme">>
            [] q = "4" -> <<"Complete problem", "96-100%", "Total">>
            [] q = "8" -> <<"Not specified", "N/A",
                            "Insufficient information to specify severity">>
            [] q = "9" -> <<"Not applicable", "N/A",
                            "Inappropriate to apply this code">>
            [] OTHER -> <<>>
    IN (tr.pc = "done" /\ tr.action = "qualifier" /\ q # "missing") =>
         /\ ~tr.result.isError /\ ~tr.result.escaped
         /\ q \in {"0", "1", "2", "3", "4", "8", "9"} =>
              SubSeq(tr.result.text, 2, 5) = <<q>> \o triple
         /\ q \notin {"0", "1", "2", "3", "4", "8", "9"} =>
              /\ tr.result.text[1] = "Invalid qualifier "
              /\ SubSeq(tr.result.text, 4, Len(tr.result.text)) =
                   <<"0", "1", "2", "3", "4", "8", "9">>

\* C15 witness: qualifier 0 was asked for and explained.
C15_Witness ==
  \E t \in Tasks :
    /\ task[t].pc = "done" /\ task[t].action = "qualifier" /\ task[t].arg = "0"
    /\ task[t].result.text[3] = "No problem"

\* C16: normalizing the title never throws and yields a string: a title
\* that is a string is returned as it is, a title {"@value": X} with a
\* string X yields X, and an object title whose "@value" is missing, null,
\* empty or zero yields the serialized object.
C16_TitleAlwaysAString ==
  task.fn = "title" =>
    LET title == task.title
    IN /\ ~task.out.threw
       /\ title.kind = "string" => task.out.str = "Walking"
       /\ title.kind = "emptyString" => task.out.str = ""
       /\ (title.kind = "wrapper" /\ title.at = "string") =>
            task.out.str = "Walking"
       /\ title.kind = "object" => task.out.str = "{\"en\":\"Walking\"}"
       /\ (title.kind = "wrapper" /\ title.at = "emptyString") =>
            task.out.str = "{\"@value\":\"\"}"
       /\ (title.kind = "wrapper" /\ title.at = "null") =>
            task.out.str = "{\"@value\":null}"

\* C17 (as stated): without the client identifier or the client secret
\* every tool invocation returns the configuration error.
C17_EveryToolReportsConfigError ==
  ~creds =>
    \A t \in Tasks : task[t].pc = "done" => task[t].result = ConfigError

\* C17 (amended): without the client identifier or the client secret no
\* client is constructed, no token exchange and no fetch is made, and no
\* invocation crashes; the tools that use the client return the
\* configuration error, and qualifier, overview and help, which use no
\* client, return their own result.
C17_NoClientWithoutCredentials ==
  ~creds =>
    /\ ~client /\ accessToken = NoToken /\ issued = 0
    /\ \A t \in Tasks :
         LET tr == task[t]
         IN /\ tr.pc \notin {"auth", "http"}
            /\ tr.pc = "done" =>
                 /\ ~tr.result.escaped
                 /\ tr.action \in ClientActions => tr.result = ConfigError
                 /\ tr.action \in {"overview", "help"} => ~tr.result.isError
                 /\ (tr.action = "qualifier" /\ tr.arg # "missing") =>
                      ~tr.result.isError

\* C17 witness: a search with a query was invoked without credentials and
\* answered with the configuration error.
C17_Witness ==
  \E t \in Tasks :
    /\ ~creds
    /\ task[t].pc = "done" /\ task[t].action = "search" /\ task[t].arg = "ok"
    /\ task[t].result = ConfigError

\* C18: when the provider answers a fetch with a non-2xx status other than
\* 401, the request fails with the API error carrying that status and
\* body: no further attempt is made for it, the failing fetch was the only
\* one of the request unless a 401 came before, the cached token and expiry
\* stay unchanged, and search, browse and api end in the error result
\* carrying the message.
C18_FailureIsNotRetried ==
  [][\A t \in Tasks :
       LET tr == task[t]
           after == task'[t]
           statusMsgs == {ApiFailedMsg(s) : s \in ApiFailStatuses}
           failed ==
             /\ tr.pc = "http"
             /\ after.raised \in statusMsgs
             /\ IF tr.stage = "child"
                THEN after.okKids = Append(tr.okKids, FALSE)
                ELSE tr.raised = <<>>
       IN failed =>
            /\ UNCHANGED <<accessToken, tokenExpiry, issued>>
            /\ tr.prevTok = NoToken => tr.attempts = 1
            /\ ~(after.pc \in {"auth", "http"}
                   /\ after.stage = tr.stage /\ after.idx = tr.idx)
            /\ tr.action \in {"search", "browse", "api"} =>
                 /\ after.pc = "done" /\ after.result.isError
                 /\ after.result.text =
                      <<IF tr.action = "api" THEN "API Error: " ELSE "Error: ">>
                        \o after.raised]_vars

\* C18 witness: a search whose fetch was answered with 404 has ended in the
\* error result and the token it used is still cached.
C18_Witness ==
  \E t \in Tasks :
    /\ task[t].pc = "done" /\ task[t].action = "search"
    /\ task[t].raised = ApiFailedMsg("404")
    /\ task[t].result = Err(<<"Error: ">> \o ApiFailedMsg("404"))
    /\ accessToken # NoToken /\ accessToken = issued

\* C19: every invocation returns a result in the end, whatever the provider
\* answers, provided each network call is answered; a provider answering
\* 401 to every fetch included.
C19_EveryInvocationReturns ==
  \A t \in Solo : (task[t].pc \in {"auth", "http"}) ~> (task[t].pc = "done")

\* C20: for a valid category and a provider list of N entities,
\* browseCategory returns the first min(N, 20) of them and the browse
\* action renders the first min(N, 10) as sample lines, in provider order.
C20_BrowseTwentyAndTen ==
  task.fn = "browse" =>
    LET kept == IF task.n < 20 THEN task.n ELSE 20
        shown == IF task.n < 10 THEN task.n ELSE 10
    IN /\ task.results = [i \in 1..kept |-> i]
       /\ task.lines = [i \in 1..shown |-> i]

\* C20 witness: the provider returned 21 entities; 20 were kept and 10 shown.
C20_Witness ==
  /\ task.fn = "browse" /\ task.n = 21
  /\ Len(task.results) = 20 /\ Len(task.lines) = 10

\* C21: when the provider reports a lifetime of 300 s or less, the expiry
\* recorded is not later than the time of issue; the request that started
\* the exchange still goes on to its fetch with the new token after that
\* one exchange, and every later request makes one exchange of its own:
\* each fetch is preceded by exactly one exchange, made by the same request,
\* whose token it carries.
C21_ShortLifetimeOneExchangeEach ==
  /\ \A e \in ShortLifetimes : e <= 300 /\ Expiry(now, e) <= now
  /\ accessToken # NoToken => tokenExpiry <= now
  /\ \A t \in Tasks :
       LET tr == task[t]
       IN /\ tr.pc = "auth" => tr.reqExch = tr.attempts + 1
          /\ tr.pc = "http" =>
               /\ tr.reqExch = tr.attempts
               /\ tr.tok # NoToken /\ tr.tok = tr.mine /\ tr.tok = issued
               /\ tr.prevTok = NoToken => (tr.reqExch = 1 /\ tr.attempts = 1)

\* C21 witness: with no 401 answered so far, a second request is at its
\* fetch after one exchange of its own, carrying the second token, whose
\* recorded expiry has been reached.
C21_Witness ==
  \E t \in Tasks :
    /\ task[t].pc = "http" /\ n401 = 0
    /\ issued = 2 /\ task[t].tok = 2 /\ task[t].mine = 2
    /\ task[t].reqExch = 1 /\ task[t].attempts = 1
    /\ tokenExpiry <= now

\* C22: a token exchange answered with a non-2xx status leaves the cached
\* token and the recorded expiry as they were, and the cache still calls
\* for an exchange, so the next request starts one (the next child of a
\* children call at once); in every state a cached token is the last one
\* issued and the expiry held with it is one recorded at an exchange.
C22_FailedExchangeLeavesCache ==
  [][/\ \A t \in Tasks :
         LET tr == task[t]
             after == task'[t]
             statusMsgs == {AuthFailedMsg(s) : s \in AuthFailStatuses}
             failed ==
               /\ tr.pc = "auth"
               /\ after.raised \in statusMsgs
               /\ IF tr.stage = "child"
                  THEN after.okKids = Append(tr.okKids, FALSE)
                  ELSE tr.raised = <<>>
          IN failed =>
               /\ UNCHANGED <<accessToken, tokenExpiry, issued>>
               /\ NeedsAuth(accessToken', tokenExpiry', now')
               /\ after.pc \in {"done", "auth"}
               /\ after.pc = "auth" => after.reqExch = 1
     /\ accessToken' # NoToken =>
          /\ accessToken' = issued'
          /\ \E e \in Lifetimes : \E k \in 0..MaxTicks :
               /\ Now0 + k * TickMs <= now'
               /\ tokenExpiry' = Expiry(Now0 + k * TickMs, e)]_vars

\* C22 witness: an exchange made because the cached token had expired was
\* refused; the call has ended and the expired token and its expiry are
\* still in the cache.
C22_Witness ==
  \E t \in Tasks :
    /\ task[t].pc = "done" /\ task[t].action = "search"
    /\ task[t].raised = AuthFailedMsg("503")
    /\ accessToken # NoToken /\ accessToken = issued
    /\ now >= tokenExpiry

====
